---- MODULE Spec2Model ----
(***************************************************************************)
(* bcp-exorcist: streaming repair of "broken CSV" files.                   *)
(*                                                                         *)
(*   src/src/reader.rs  exorsize_csv (stream driver), exorsize_csv_batch   *)
(*                      (batch transcoder), handle_closing                 *)
(*   src/src/lib.rs     exorcize_csv (backup-rename orchestration)         *)
(*                                                                         *)
(* Bytes are integers 0..255.  Positions inside a slice are 0-based, as in *)
(* the source; At and Slice translate them to TLA+ sequences.              *)
(*                                                                         *)
(* Four specifications share the module:                                   *)
(*   Spec         one call of exorsize_csv on a reader and an output that  *)
(*                do not fail; the reader may return short reads           *)
(*   SpecFs       one call of exorcize_csv (lib.rs), which runs the same   *)
(*                stream driver between its file-system steps              *)
(*   SpecBatch    exorsize_csv_batch applied to an arbitrary haystack and  *)
(*                an arbitrary pre-filled buffer                           *)
(*   SpecClosing  the buffer rewrite of handle_closing applied repeatedly  *)
(*                to an arbitrary buffer                                   *)
(***************************************************************************)
EXTENDS Integers, Sequences, FiniteSets

VARIABLES
    \* ---- exorsize_csv (reader.rs:20-58) ----
    input,       \* the bytes the reader `input` yields
    size,        \* parameter size
    chunk_size,  \* parameter chunk_size
    sep,         \* opts.sep
    eol,         \* opts.eol
    pc,          \* position in exorsize_csv / exorcize_csv
    pos,         \* bytes of input handed out by reader.read so far
    rbuf,        \* bytes the BufReader has buffered and not yet handed out
    reads,       \* the non-zero values `read` has taken, in order
    buf,         \* the read buffer, vec![0u8; chunk_size]
    read,        \* the local `read` of the last loop iteration
    out,         \* the pending output buffer
    wbuf,        \* bytes accepted by the BufWriter and not yet flushed
    sink,        \* bytes that reached the underlying output
    result,      \* io::Result of exorsize_csv: "none", "Ok", "Err"
    \* ---- exorcize_csv (lib.rs:67-98) ----
    fileAt,      \* which file each path names: "orig", "new" or "none"
    pyres,       \* PyResult of exorcize_csv
    \* ---- SpecBatch ----
    haystack,    \* argument haystack of exorsize_csv_batch
    bbuf,        \* argument buf of exorsize_csv_batch
    bdone,       \* the call has returned
    \* ---- SpecClosing ----
    cbuf,        \* the buffer handed to handle_closing
    napplied     \* how many times the rewrite was applied

vars == <<input, size, chunk_size, sep, eol, pc, pos, rbuf, reads, buf, read,
          out, wbuf, sink, result, fileAt, pyres, haystack, bbuf, bdone, cbuf,
          napplied>>

driverVars == <<input, size, chunk_size, sep, eol, pc, pos, rbuf, reads, buf,
                read, out, wbuf, sink, result>>
driverVarsNoPc == <<input, size, chunk_size, sep, eol, pos, rbuf, reads, buf,
                    read, out, wbuf, sink, result>>
fsVars     == <<fileAt, pyres>>
batchVars  == <<haystack, bbuf, bdone>>
closeVars  == <<cbuf, napplied>>

(***************************************************************************)
(* Byte values the code names.                                             *)
(***************************************************************************)
Quote      == 34
Backslash  == 92
Newline    == 10
Comma      == 44
DefaultSep == 30
DefaultEol == 29

\* The buffer sizes of BufReader::new and BufWriter::new.
ReaderCapacity == 8192
WriterCapacity == 8192

(***************************************************************************)
(* Bounds of the model.                                                    *)
(***************************************************************************)
MaxLen     == 3      \* longest input stream of Spec
MaxChunk   == 2      \* largest chunk_size
MaxFileLen == 2      \* longest file of SpecFs
MaxHay     == 3      \* longest haystack of SpecBatch
MaxBuf     == 4      \* longest buffer of SpecClosing

\* The input alphabet: an ordinary byte ('a'), and every byte some branch of
\* the code tests for.
Bytes == {97, Backslash, Newline, Quote, DefaultSep, DefaultEol}

\* Separator / terminator configurations: every pair of bytes of the
\* alphabet, among them the default, a backslash or a double quote as a
\* delimiter, and separator = terminator.
Configs == Bytes \X Bytes

SeqsUpTo(S, n) == UNION { [1..m -> S] : m \in 0..n }

Min(a, b) == IF a < b THEN a ELSE b

\* haystack[i] and haystack[a..b] of the source (0-based, b exclusive).
At(s, i)       == s[i + 1]
Slice(s, a, b) == SubSeq(s, a + 1, b)

\* vec![0u8; n]
Zeros(n) == [i \in 1..n |-> 0]

(***************************************************************************)
(* exorsize_csv_batch, reader.rs:61-89                                     *)
(***************************************************************************)

\* memchr3_iter(n1, n2, n3, haystack): the positions, ascending, of the
\* bytes of haystack equal to one of the three needles.
RECURSIVE memchr3_from(_, _, _, _, _)
memchr3_from(n1, n2, n3, hay, from) ==
    IF from >= Len(hay) THEN <<>>
    ELSE IF At(hay, from) \in {n1, n2, n3}
         THEN <<from>> \o memchr3_from(n1, n2, n3, hay, from + 1)
         ELSE memchr3_from(n1, n2, n3, hay, from + 1)

memchr3_iter(n1, n2, n3, hay) == memchr3_from(n1, n2, n3, hay, 0)

\* MatchArm with the backslash look-back missing from the terminator arm.
MatchArm_NoEolLookBack(hay, b, p, s, e) ==
    LET c == At(hay, p) IN
    IF c = s
    THEN (IF p > 0 /\ At(hay, p - 1) = Backslash THEN Append(b, Backslash) ELSE b)
            \o <<Quote, Comma, Quote>>
    ELSE IF c = e
    THEN b \o <<Quote, Newline, Quote>>
    ELSE b \o <<Backslash, Quote>>

\* MatchArm with no backslash look-back at all.
MatchArm_NoLookBack(hay, b, p, s, e) ==
    LET c == At(hay, p) IN
    IF c = s THEN b \o <<Quote, Comma, Quote>>
    ELSE IF c = e THEN b \o <<Quote, Newline, Quote>>
    ELSE b \o <<Backslash, Quote>>

\* match haystack[pos] { ... }, reader.rs:66-80, applied to buffer b.
MatchArm(hay, b, p, s, e) ==
    LET c == At(hay, p) IN
    IF c = s
    THEN (IF p > 0 /\ At(hay, p - 1) = Backslash THEN Append(b, Backslash) ELSE b)
            \o <<Quote, Comma, Quote>>
    ELSE IF c = e
    THEN (IF p > 0 /\ At(hay, p - 1) = Backslash THEN Append(b, Backslash) ELSE b)
            \o <<Quote, Newline, Quote>>
    ELSE b \o <<Backslash, Quote>>

\* The for loop over the matches, reader.rs:62-83: i-th match, buffer b,
\* cursor idx.  Returns the buffer and the cursor after the last match.
RECURSIVE BatchLoop(_, _, _, _, _, _, _)
BatchLoop(hay, matches, i, b, idx, s, e) ==
    IF i > Len(matches) THEN [buf |-> b, idx |-> idx]
    ELSE LET p  == matches[i]
             b1 == b \o Slice(hay, idx, p)
             b2 == MatchArm(hay, b1, p, s, e)
         IN  BatchLoop(hay, matches, i + 1, b2, p + 1, s, e)

exorsize_csv_batch(hay, b, s, e) ==
    LET r == BatchLoop(hay, memchr3_iter(s, e, Quote, hay), 1, b, 0, s, e)
    IN  IF r.idx < Len(hay)
        THEN r.buf \o Slice(hay, r.idx, Len(hay))
        ELSE r.buf

(***************************************************************************)
(* handle_closing, reader.rs:92-112: the rewrite of `out` (lines 96-107).  *)
(***************************************************************************)
\* handle_closing_out dropping a trailing quote whatever precedes it.
handle_closing_out_AlwaysPop(o) ==
    LET len == Len(o) IN
    IF len > 1
    THEN IF o[len] = Quote THEN SubSeq(o, 1, len - 1)
         ELSE IF o[len] = Newline THEN o
         ELSE Append(o, Quote)
    ELSE o

\* handle_closing_out without the arm for a trailing quote.
handle_closing_out_NoQuoteArm(o) ==
    LET len == Len(o) IN
    IF len > 1
    THEN IF o[len] = Newline THEN o ELSE Append(o, Quote)
    ELSE o

handle_closing_out(o) ==
    LET len == Len(o) IN
    IF len > 1
    THEN IF o[len] = Quote
         THEN (IF o[len - 1] = Newline THEN SubSeq(o, 1, len - 1) ELSE o)
         ELSE IF o[len] = Newline THEN o
         ELSE Append(o, Quote)
    ELSE o

(***************************************************************************)
(* exorsize_csv, reader.rs:20-58.                                          *)
(*                                                                         *)
(* The reader is a BufReader over the input, the writer a BufWriter over   *)
(* the output (reader.rs:31-32).  The input is any Read: a call of its     *)
(* read may return fewer bytes than asked for, and returns 0 only at the   *)
(* end of the stream.                                                      *)
(***************************************************************************)

\* What one read of the input may return when asked for req bytes with
\* left bytes left.
InnerRead(req, left) == IF left = 0 THEN {0} ELSE 1..Min(req, left)

\* reader.read(&mut buf) with buf of k bytes, rb bytes buffered and left
\* bytes left in the input: the bytes returned and the bytes that stay
\* buffered.  An empty BufReader asked for at least its capacity reads the
\* input directly; otherwise it refills its buffer when empty and hands out
\* what it holds, at most k bytes.
ReaderRead(rb, left, k) ==
    IF rb > 0
    THEN { [n |-> Min(rb, k), rbuf |-> rb - Min(rb, k)] }
    ELSE IF k >= ReaderCapacity
    THEN { [n |-> g, rbuf |-> 0] : g \in InnerRead(k, left) }
    ELSE { [n |-> Min(g, k), rbuf |-> g - Min(g, k)] :
                g \in InnerRead(ReaderCapacity, left) }

\* What the output may receive of `data` from a flush that fails, or from
\* the flush of a dropped writer (whose error is ignored): any prefix.
FlushMay(data) == { SubSeq(data, 1, n) : n \in 0..Len(data) }

\* What the output may receive of `data` from a write_all of the output that
\* fails: any prefix but the whole.
WriteMay(data) == { SubSeq(data, 1, n) : n \in 0..(Len(data) - 1) }

\* writer.write_all(data) that succeeds, with w buffered and snk in the
\* output: the writer flushes its buffer when data does not fit, and writes
\* data of at least its capacity straight through.
WriterWriteAll(w, snk, data) ==
    LET fits == Len(w) + Len(data) <= WriterCapacity
        w1   == IF fits THEN w ELSE <<>>
        s1   == IF fits THEN snk ELSE snk \o w
    IN  IF Len(data) >= WriterCapacity
        THEN [ok |-> TRUE, wbuf |-> w1, sink |-> s1 \o data]
        ELSE [ok |-> TRUE, wbuf |-> w1 \o data, sink |-> s1]

\* writer.write_all(data) that fails, which it can only where it writes to
\* the output: in the flush of a buffer that data does not fit (the dropped
\* writer then flushes what is left once more), or, that flush done, in
\* writing data of at least the capacity straight through.  The writer is
\* dropped with the error, so nothing stays buffered.
WriterWriteAllFails(w, snk, data) ==
    LET fits == Len(w) + Len(data) <= WriterCapacity
        s1   == IF fits THEN snk ELSE snk \o w
    IN  (IF fits THEN {}
         ELSE { [ok |-> FALSE, wbuf |-> <<>>, sink |-> snk \o f] : f \in FlushMay(w) })
        \cup
        (IF Len(data) >= WriterCapacity
         THEN { [ok |-> FALSE, wbuf |-> <<>>, sink |-> s1 \o d] : d \in WriteMay(data) }
         ELSE {})

\* The outcomes of writer.write_all(data) on an output that may fail or not.
WriterWriteAllMay(w, snk, data, mayFail) ==
    {WriterWriteAll(w, snk, data)}
        \cup (IF mayFail THEN WriterWriteAllFails(w, snk, data) ELSE {})

\* out.clear() without the clearing.
Clear_Keeps(o) == o

\* out.clear(), reader.rs:52
Clear(o) == <<>>

\* Enter seeding the opening quote whatever size is.
Enter_AlwaysSeed ==
    /\ pc = "enter"
    /\ buf' = Zeros(chunk_size)
    /\ out' = <<Quote>>
    /\ pc' = "loop"
    /\ UNCHANGED <<input, size, chunk_size, sep, eol, pos, rbuf, reads, read,
                   wbuf, sink, result>>
    /\ UNCHANGED <<fsVars, batchVars, closeVars>>

\* reader.rs:31-39
Enter ==
    /\ pc = "enter"
    /\ buf' = Zeros(chunk_size)
    /\ out' = IF size > 0 THEN <<Quote>> ELSE <<>>
    /\ pc' = "loop"
    /\ UNCHANGED <<input, size, chunk_size, sep, eol, pos, rbuf, reads, read,
                   wbuf, sink, result>>
    /\ UNCHANGED <<fsVars, batchVars, closeVars>>

\* One iteration with a non-zero read, reader.rs:42-54: the read, then
\* write_all of the pending buffer, which returns the error when it fails,
\* then clear and transcode.
LoopStep(mayFail) ==
    /\ pc = "loop"
    /\ \E r \in ReaderRead(rbuf, Len(input) - pos - rbuf, chunk_size) :
       \E w \in WriterWriteAllMay(wbuf, sink, out, mayFail) :
         LET n     == r.n
             chunk == SubSeq(input, pos + 1, pos + n)
         IN  /\ n > 0
             /\ read' = n
             /\ reads' = Append(reads, n)
             /\ pos' = pos + n
             /\ rbuf' = r.rbuf
             /\ buf' = chunk \o SubSeq(buf, n + 1, Len(buf))
             /\ wbuf' = w.wbuf
             /\ sink' = w.sink
             /\ IF w.ok
                THEN /\ out' = exorsize_csv_batch(SubSeq(buf', 1, n), Clear(out), sep, eol)
                     /\ UNCHANGED <<pc, result>>
                ELSE /\ out' = out
                     /\ result' = "Err"
                     /\ pc' = "returned"
    /\ UNCHANGED <<input, size, chunk_size, sep, eol>>
    /\ UNCHANGED <<fsVars, batchVars, closeVars>>

\* On an output that does not fail.
LoopIteration == LoopStep(FALSE)

\* On a file.
LoopIterationIo == LoopStep(TRUE)

\* reader.read returns 0: break, reader.rs:42-46.
ReadEof ==
    /\ pc = "loop"
    /\ \E r \in ReaderRead(rbuf, Len(input) - pos - rbuf, chunk_size) : r.n = 0
    /\ read' = 0
    /\ pc' = "closing"
    /\ UNCHANGED <<input, size, chunk_size, sep, eol, pos, rbuf, reads, buf, out,
                   wbuf, sink, result>>
    /\ UNCHANGED <<fsVars, batchVars, closeVars>>

\* handle_closing with a write and a flush that succeed, reader.rs:92-112.
HandleClosing ==
    /\ pc = "closing"
    /\ out' = handle_closing_out(out)
    /\ LET w == WriterWriteAll(wbuf, sink, out') IN sink' = w.sink \o w.wbuf
    /\ wbuf' = <<>>
    /\ result' = "Ok"
    /\ pc' = "returned"
    /\ UNCHANGED <<input, size, chunk_size, sep, eol, pos, rbuf, reads, buf, read>>
    /\ UNCHANGED <<fsVars, batchVars, closeVars>>

\* reader.read fails on the file: `?` returns the error (reader.rs:42) and
\* the writer is dropped.
ReadFail ==
    /\ pc = "loop"
    /\ \E w \in FlushMay(wbuf) : sink' = sink \o w
    /\ wbuf' = <<>>
    /\ result' = "Err"
    /\ pc' = "returned"
    /\ UNCHANGED <<input, size, chunk_size, sep, eol, pos, rbuf, reads, buf, read, out>>
    /\ UNCHANGED <<fsVars, batchVars, closeVars>>

\* handle_closing with a write_all (reader.rs:109) or a flush (reader.rs:110)
\* of the file that fails.
HandleClosingFail ==
    /\ pc = "closing"
    /\ out' = handle_closing_out(out)
    /\ LET w == WriterWriteAll(wbuf, sink, out')
       IN  \/ \E x \in WriterWriteAllFails(wbuf, sink, out') : sink' = x.sink
           \/ \E f \in FlushMay(w.wbuf) : sink' = w.sink \o f
    /\ wbuf' = <<>>
    /\ result' = "Err"
    /\ pc' = "returned"
    /\ UNCHANGED <<input, size, chunk_size, sep, eol, pos, rbuf, reads, buf, read>>
    /\ UNCHANGED <<fsVars, batchVars, closeVars>>

DriverIdle ==
    /\ input = <<>> /\ size = 0 /\ chunk_size = 1
    /\ sep = DefaultSep /\ eol = DefaultEol
    /\ pc = "idle" /\ pos = 0 /\ rbuf = 0 /\ reads = <<>> /\ buf = <<>> /\ read = 0
    /\ out = <<>> /\ wbuf = <<>> /\ sink = <<>> /\ result = "none"
FsIdle    == fileAt = [path |-> "new", bak |-> "orig", broken |-> "none"] /\ pyres = "none"
BatchIdle == haystack = <<>> /\ bbuf = <<>> /\ bdone = FALSE
CloseIdle == cbuf = <<>> /\ napplied = 0

\* exorsize_csv called on a reader and a writer that never fail (the tests of
\* reader.rs use in-memory ones); size is the length of the input.
Init ==
    /\ input \in SeqsUpTo(Bytes, MaxLen)
    /\ size = Len(input)
    /\ chunk_size \in 1..MaxChunk
    /\ \E c \in Configs : sep = c[1] /\ eol = c[2]
    /\ pc = "enter"
    /\ pos = 0 /\ rbuf = 0 /\ reads = <<>> /\ buf = <<>> /\ read = 0
    /\ out = <<>> /\ wbuf = <<>> /\ sink = <<>> /\ result = "none"
    /\ FsIdle
    /\ BatchIdle
    /\ CloseIdle

Next ==
    \/ Enter
    \/ LoopIteration
    \/ ReadEof
    \/ HandleClosing

Spec == Init /\ [][Next]_vars

(***************************************************************************)
(* The complete output of one successful call of exorsize_csv, as a        *)
(* function of its arguments: what the actions above leave in the sink.    *)
(***************************************************************************)

\* The transcodings of the chunks of inp that start at byte `from` and have
\* the lengths cuts[i], cuts[i+1], ..., in read order, concatenated.
RECURSIVE TranscodeChunks(_, _, _, _, _, _)
TranscodeChunks(inp, from, cuts, i, s, e) ==
    IF i > Len(cuts) THEN <<>>
    ELSE exorsize_csv_batch(SubSeq(inp, from + 1, from + cuts[i]), <<>>, s, e)
            \o TranscodeChunks(inp, from + cuts[i], cuts, i + 1, s, e)

\* The output when the reads returned cuts[1], cuts[2], ... bytes, which add
\* up to the length of inp.
exorsize_csv_output(inp, sz, cuts, s, e) ==
    LET seed == IF sz > 0 THEN <<Quote>> ELSE <<>>
        m    == Len(cuts)
    IN  IF m = 0 THEN handle_closing_out(seed)
        ELSE seed \o TranscodeChunks(inp, 0, SubSeq(cuts, 1, m - 1), 1, s, e)
                  \o handle_closing_out(
                        exorsize_csv_batch(
                            SubSeq(inp, Len(inp) - cuts[m] + 1, Len(inp)), <<>>, s, e))

\* The actions and the summary agree.
OutputAgrees ==
    (pc = "returned" /\ result = "Ok")
        => sink = exorsize_csv_output(input, size, reads, sep, eol)

(***************************************************************************)
(* exorcize_csv, lib.rs:67-98.                                             *)
(*                                                                         *)
(* fileAt says which file each of the three paths names: "orig" is the     *)
(* file the caller passed (its bytes are `input`; no step writes to it),   *)
(* "new" the file File::create made (its bytes are `sink`), "none" no      *)
(* file.  Every file-system call may fail.                                 *)
(***************************************************************************)

\* fs::rename(from, to)
Rename(fs, from, to) == [fs EXCEPT ![to] = fs[from], ![from] = "none"]

Fail(err) ==
    /\ pyres' = err
    /\ pc' = "done"
    /\ UNCHANGED <<fileAt, driverVarsNoPc, batchVars, closeVars>>

\* lib.rs:76-77
RenameToBak ==
    /\ pc = "rename_bak"
    /\ fileAt.path # "none"
    /\ fileAt' = Rename(fileAt, "path", "bak")
    /\ pc' = "open"
    /\ UNCHANGED <<pyres, driverVarsNoPc, batchVars, closeVars>>

RenameToBakFail == pc = "rename_bak" /\ Fail("OSError")

\* lib.rs:80
OpenInput ==
    /\ pc = "open"
    /\ fileAt.bak = "orig"
    /\ pc' = "metadata"
    /\ UNCHANGED <<fsVars, driverVarsNoPc, batchVars, closeVars>>

OpenInputFail == pc = "open" /\ Fail("OSError")

\* lib.rs:81
Metadata ==
    /\ pc = "metadata"
    /\ size' = Len(input)
    /\ pc' = "create"
    /\ UNCHANGED <<input, chunk_size, sep, eol, pos, rbuf, reads, buf, read, out,
                   wbuf, sink, result>>
    /\ UNCHANGED <<fsVars, batchVars, closeVars>>

MetadataFail == pc = "metadata" /\ Fail("OSError")

\* CreateOutput creating the output under the backup's path.
CreateOutput_AtBak ==
    /\ pc = "create"
    /\ fileAt' = [fileAt EXCEPT !.bak = "new"]
    /\ sink' = <<>>
    /\ pc' = "enter"
    /\ UNCHANGED <<input, size, chunk_size, sep, eol, pos, rbuf, reads, buf, read,
                   out, wbuf, result>>
    /\ UNCHANGED <<pyres, batchVars, closeVars>>

\* lib.rs:82-83: File::create(filepath) makes (or truncates to) an empty file.
CreateOutput ==
    /\ pc = "create"
    /\ fileAt' = [fileAt EXCEPT !.path = "new"]
    /\ sink' = <<>>
    /\ pc' = "enter"
    /\ UNCHANGED <<input, size, chunk_size, sep, eol, pos, rbuf, reads, buf, read,
                   out, wbuf, result>>
    /\ UNCHANGED <<pyres, batchVars, closeVars>>

CreateOutputFail == pc = "create" /\ Fail("OSError")

\* lib.rs:85-89
MatchOk ==
    /\ pc = "returned"
    /\ result = "Ok"
    /\ pyres' = "Ok"
    /\ pc' = "done"
    /\ UNCHANGED <<fileAt, driverVarsNoPc, batchVars, closeVars>>

\* lib.rs:90-91
RenameToBroken ==
    /\ pc = "returned"
    /\ result = "Err"
    /\ fileAt.path # "none"
    /\ fileAt' = Rename(fileAt, "path", "broken")
    /\ pc' = "rename_back"
    /\ UNCHANGED <<pyres, driverVarsNoPc, batchVars, closeVars>>

RenameToBrokenFail == pc = "returned" /\ result = "Err" /\ Fail("OSError")

\* lib.rs:92-95
RenameBack ==
    /\ pc = "rename_back"
    /\ fileAt.bak # "none"
    /\ fileAt' = Rename(fileAt, "bak", "path")
    /\ pyres' = "RuntimeError"
    /\ pc' = "done"
    /\ UNCHANGED <<driverVarsNoPc, batchVars, closeVars>>

RenameBackFail == pc = "rename_back" /\ Fail("OSError")

\* exorcize_csv called on a file that exists, with the default delimiters.
InitFs ==
    /\ input \in SeqsUpTo(Bytes, MaxFileLen)
    /\ size = 0
    /\ chunk_size \in 1..MaxChunk
    /\ sep = DefaultSep /\ eol = DefaultEol
    /\ pc = "rename_bak"
    /\ pos = 0 /\ rbuf = 0 /\ reads = <<>> /\ buf = <<>> /\ read = 0
    /\ out = <<>> /\ wbuf = <<>> /\ sink = <<>> /\ result = "none"
    /\ fileAt = [path |-> "orig", bak |-> "none", broken |-> "none"]
    /\ pyres = "none"
    /\ BatchIdle
    /\ CloseIdle

NextFs ==
    \/ RenameToBak   \/ RenameToBakFail
    \/ OpenInput     \/ OpenInputFail
    \/ Metadata      \/ MetadataFail
    \/ CreateOutput  \/ CreateOutputFail
    \/ Enter
    \/ LoopIterationIo
    \/ ReadEof
    \/ ReadFail
    \/ HandleClosing
    \/ HandleClosingFail
    \/ MatchOk
    \/ RenameToBroken \/ RenameToBrokenFail
    \/ RenameBack     \/ RenameBackFail

SpecFs == InitFs /\ [][NextFs]_vars

(***************************************************************************)
(* exorsize_csv_batch on its own: any haystack, a buffer that may already  *)
(* hold bytes, the default separator and terminator.                       *)
(***************************************************************************)
PriorBufs == { <<>>, <<Backslash>>, <<97, Quote>> }

InitBatch ==
    /\ DriverIdle
    /\ FsIdle
    /\ haystack \in SeqsUpTo(Bytes, MaxHay)
    /\ bbuf \in PriorBufs
    /\ bdone = FALSE
    /\ CloseIdle

BatchCall ==
    /\ ~bdone
    /\ bbuf' = exorsize_csv_batch(haystack, bbuf, sep, eol)
    /\ bdone' = TRUE
    /\ UNCHANGED <<haystack, driverVars, fsVars, closeVars>>

NextBatch == BatchCall

SpecBatch == InitBatch /\ [][NextBatch]_vars

(***************************************************************************)
(* The buffer rewrite of handle_closing on its own, applied up to twice.   *)
(***************************************************************************)
CloseBytes == {97, Comma, Newline, Quote}

InitClosing ==
    /\ DriverIdle
    /\ FsIdle
    /\ BatchIdle
    /\ cbuf \in SeqsUpTo(CloseBytes, MaxBuf)
    /\ napplied = 0

ApplyClosing ==
    /\ napplied < 2
    /\ cbuf' = handle_closing_out(cbuf)
    /\ napplied' = napplied + 1
    /\ UNCHANGED <<driverVars, fsVars, batchVars>>

NextClosing == ApplyClosing

SpecClosing == InitClosing /\ [][NextClosing]_vars

(***************************************************************************)
(*                              Properties                                 *)
(***************************************************************************)

\* exorsize_csv has returned Ok; its complete output is `sink`.
Returned == pc = "returned" /\ result = "Ok"

\* No byte of inp is the separator, the terminator or a double quote.
Plain(inp) == \A i \in 1..Len(inp) : inp[i] \notin {sep, eol, Quote}

\* cuts[1] + ... + cuts[i]
RECURSIVE SumTo(_, _)
SumTo(cuts, i) == IF i = 0 THEN 0 ELSE SumTo(cuts, i - 1) + cuts[i]

\* The (1-based) places of the last byte of every chunk but the last, when
\* the reads returned cuts[1], cuts[2], ... bytes.
CutEnds(cuts) == { SumTo(cuts, i) : i \in 1..(Len(cuts) - 1) }

\* Under the chunking cuts no backslash is the last byte of one chunk while a
\* separator or terminator is the first byte of the next.
NoStraddle(inp, cuts) ==
    \A b \in CutEnds(cuts) :
        ~(inp[b] = Backslash /\ inp[b + 1] \in {sep, eol})

\* n bytes read in full chunks of k bytes: k, k, ..., and the rest.
RECURSIVE FullChunks(_, _)
FullChunks(n, k) ==
    IF n = 0 THEN <<>> ELSE <<Min(n, k)>> \o FullChunks(n - Min(n, k), k)

\* The chunk most recently read, from the input and the reader's position.
LastChunk == SubSeq(input, pos - reads[Len(reads)] + 1, pos)

\* C1: for a non-empty input without separator, terminator and double quote,
\* the complete output is a quote, the input unchanged, a quote.
C1_QuotedInput ==
    (Returned /\ input # <<>> /\ Plain(input))
        => sink = <<Quote>> \o input \o <<Quote>>

\* C2: chunk-size independence: when no backslash/delimiter pair straddles a
\* chunk boundary in this run, nor when the input is read in full chunks of
\* another chunk size k2 >= 1, the complete output of this run equals the
\* complete output under k2.
C2_ChunkIndependent ==
    Returned =>
        \A k2 \in 1..(MaxLen + 1) :
            LET cuts2 == FullChunks(Len(input), k2) IN
            (NoStraddle(input, reads) /\ NoStraddle(input, cuts2))
                => sink = exorsize_csv_output(input, size, cuts2, sep, eol)

\* What C3 expects for the byte at (1-based) place i of the haystack.
C3_Piece(hay, i) ==
    LET c    == hay[i]
        back == IF i > 1 /\ hay[i - 1] = Backslash THEN <<Backslash>> ELSE <<>>
    IN  IF c = DefaultSep THEN back \o <<Quote, Comma, Quote>>
        ELSE IF c = DefaultEol THEN back \o <<Quote, Newline, Quote>>
        ELSE IF c = Quote THEN <<Backslash, Quote>>
        ELSE <<c>>

RECURSIVE C3_Pieces(_, _)
C3_Pieces(hay, i) ==
    IF i > Len(hay) THEN <<>> ELSE C3_Piece(hay, i) \o C3_Pieces(hay, i + 1)

\* C3: with the default separator and terminator, exorsize_csv_batch leaves
\* the bytes already in the buffer unchanged and appends exactly the
\* concatenation, over the haystack bytes in ascending position, of
\* quote-comma-quote for a separator, quote-newline-quote for a terminator
\* (each after one extra backslash when the byte before it in the haystack is
\* a backslash), backslash-quote for a double quote, and the byte itself
\* otherwise.
C3_BatchPerByte ==
    [][ (~bdone /\ bdone') => bbuf' = bbuf \o C3_Pieces(haystack, 1) ]_vars

\* A call on backslash, separator, terminator (an escaped separator next to
\* an adjacent delimiter) with a buffer that already held a byte.
C3_Witness ==
    /\ bdone
    /\ haystack = <<Backslash, DefaultSep, DefaultEol>>
    /\ bbuf = <<Backslash>> \o <<Backslash, Backslash, Quote, Comma, Quote,
                                 Quote, Newline, Quote>>

\* C4: for a non-empty input the complete output does not end inside an open
\* quoted field: with T the transcodings of all chunks, the output is either
\* the seeded quote, T and one closing quote, or (the input ended on a
\* terminator) the seeded quote and T without its dangling last quote, ending
\* in quote-newline.
C4_ClosedOutput ==
    (Returned /\ input # <<>>) =>
        LET T == TranscodeChunks(input, 0, reads, 1, sep, eol)
            n == Len(sink)
        IN  \/ sink = <<Quote>> \o T \o <<Quote>>
            \/ /\ input[Len(input)] = eol
               /\ sink = <<Quote>> \o SubSeq(T, 1, Len(T) - 1)
               /\ n >= 2 /\ sink[n - 1] = Quote /\ sink[n] = Newline

\* C5: for an empty input with size 0, exorsize_csv returns Ok and no byte is
\* seeded, buffered or written.
C5_EmptyInput ==
    (input = <<>> /\ size = 0) =>
        /\ out = <<>> /\ wbuf = <<>> /\ sink = <<>>
        /\ pc = "returned" => result = "Ok"

C5_Witness == input = <<>> /\ size = 0 /\ Returned /\ sink = <<>>

\* C6: in every state of exorcize_csv, whichever file-system step fails, the
\* original file is under the original path or under <path>.bak.
C6_OriginalKept == fileAt.path = "orig" \/ fileAt.bak = "orig"

\* The transform failed, its output was renamed to .broken and the backup
\* was renamed back.
C6_Witness ==
    /\ pc = "done" /\ pyres = "RuntimeError"
    /\ fileAt = [path |-> "orig", bak |-> "none", broken |-> "new"]

\* C7: closing normalization is idempotent: a buffer that is a result of the
\* rewrite is left as it is by the rewrite.
C7_ClosingIdempotent == napplied >= 1 => handle_closing_out(cbuf) = cbuf

\* Applied twice to a buffer of the greatest length, which the first
\* application extended by the closing quote.
C7_Witness == napplied = 2 /\ Len(cbuf) = MaxBuf + 1

\* C8: after every iteration with a non-zero read, and still when closing
\* normalization is about to run, the bytes written followed by the pending
\* buffer are the seeded quote followed by the transcodings of all chunks
\* read so far, and the pending buffer is the transcoding of the chunk read
\* last alone, which is the first `read` bytes of the read buffer.
C8_DeferredFlush ==
    (pc \in {"loop", "closing"} /\ pos > 0) =>
        /\ sink \o wbuf \o out
              = <<Quote>> \o TranscodeChunks(input, 0, reads, 1, sep, eol)
        /\ out = exorsize_csv_batch(LastChunk, <<>>, sep, eol)
        /\ read > 0 => SubSeq(buf, 1, read) = LastChunk

\* A third chunk has been transcoded and nothing of it is written.
C8_Witness ==
    /\ pc = "loop" /\ read > 0 /\ Len(reads) >= 3
    /\ sink \o wbuf # <<Quote>>

\* A chunk boundary falls between a backslash and a separator or terminator.
C9_Straddle ==
    /\ pc = "loop" /\ read > 0 /\ pos - read >= 1
    /\ input[pos - read] = Backslash
    /\ input[pos - read + 1] \in {sep, eol}

\* C9: when a chunk boundary falls between a backslash and a delimiter, the
\* transcoding of the new chunk starts with the delimiter's quote and no
\* extra backslash; had the backslash been in the same chunk, the transcoding
\* would be that of the backslash, one extra backslash, and then the same
\* bytes: the two differ by exactly that backslash.
C9_CrossChunkEscape ==
    C9_Straddle =>
        LET chunk == SubSeq(buf, 1, read) IN
        /\ out[1] = Quote
        /\ exorsize_csv_batch(<<Backslash>> \o chunk, <<>>, sep, eol)
              = exorsize_csv_batch(<<Backslash>>, <<>>, sep, eol)
                    \o <<Backslash>> \o out

C9_Witness == C9_Straddle /\ sep = DefaultSep /\ eol = DefaultEol

\* C10 as stated: the pending output buffer never holds more than
\* 3 * chunk_size bytes, whatever the separator and terminator.
C10_OutBound == Len(out) <= 3 * chunk_size

\* C10 amended: when neither the separator nor the terminator is the
\* backslash, the pending output buffer never holds more than 3 * chunk_size
\* bytes.
C10_OutBoundNoBackslashDelim ==
    (sep # Backslash /\ eol # Backslash) => Len(out) <= 3 * chunk_size

\* A full chunk of delimiters fills the buffer to the bound, closing
\* normalization included.
C10_Witness ==
    /\ sep # Backslash /\ eol # Backslash
    /\ Returned /\ chunk_size = MaxChunk
    /\ Len(out) = 3 * chunk_size

====
